---- MODULE Spec2Model ----
(***************************************************************************)
(* Model of the relayer's MerkleTreeBuilder                                *)
(* (rust/main/agents/relayer/src/merkle_tree/builder.rs) and of the domain *)
(* registry (rust/hyperlane-core/src/chain.rs).                            *)
(*                                                                         *)
(* The Builder owns a Prover and an IncrementalMerkle.  Their code lives   *)
(* in other crates of the repository (crate::prover and                    *)
(* hyperlane_core::accumulator); they are modelled here from sections 4.1  *)
(* and 4.2 of the specification.  The hash is a free constructor: two      *)
(* digests are equal exactly when they were built the same way, which is   *)
(* the collision-resistance the specification assumes.                     *)
(***************************************************************************)
EXTENDS Integers, Sequences, FiniteSets, TLC

\* Depth D of both trees (32 in the specification's example), scaled down.
TREE_DEPTH == 2

\* Width in bits of the u32 that count() returns and get_proof's indices
\* have, scaled down so that 2^width is an integer TLC can hold.
U32_BITS == 16

\* The message ids offered to ingest_message_id.  A message id is the
\* keccak-256 digest of a message: two distinct values stand for them, and
\* neither is value 0, H256::zero(), the digest of an empty leaf.
LeafValues == {1, 2}

Capacity == 2 ^ TREE_DEPTH

U32Modulus == 2 ^ U32_BITS

Levels == 0 .. (TREE_DEPTH - 1)

-----------------------------------------------------------------------------
(* Digests *)

Leaf(k) == [leaf |-> k]

ZERO == Leaf(0)

Leaves == {Leaf(k) : k \in LeafValues}

hash_concat(a, b) == [l |-> a, r |-> b]

RECURSIVE ZeroHash(_)
ZeroHash(k) ==
    IF k = 0 THEN ZERO ELSE hash_concat(ZeroHash(k - 1), ZeroHash(k - 1))

Bit(n, i) == (n \div (2 ^ i)) % 2

\* format!("{:?}", root): the rendering of a digest, one string per digest.
DebugFmt(d) == [hex |-> d]

-----------------------------------------------------------------------------
(* Incremental Accumulator, specification section 4.1 *)

IncrementalDefault == [branch |-> [i \in Levels |-> ZERO], count |-> 0]

\* The bit-driven walk: store the carried digest at the first level whose
\* bit of the pre-increment count is 0, hashing through the filled levels
\* below it.  The branch array has TREE_DEPTH slots; when every one of the
\* TREE_DEPTH bits is 1 the walk leaves the array without storing.
RECURSIVE IncrementalWalk(_, _, _, _)
IncrementalWalk(branch, size, node, i) ==
    IF i >= TREE_DEPTH THEN branch
    ELSE IF Bit(size, i) = 0 THEN [branch EXCEPT ![i] = node]
    ELSE IncrementalWalk(branch, size, hash_concat(branch[i], node), i + 1)

IncrementalIngest(inc, leaf) ==
    [branch |-> IncrementalWalk(inc.branch, inc.count, leaf, 0),
     count  |-> inc.count + 1]

\* root(): fold the branch array against the empty-subtree digests, level
\* by level, according to the bits of count.
RECURSIVE IncrementalFold(_, _, _, _)
IncrementalFold(branch, size, node, i) ==
    IF i >= TREE_DEPTH THEN node
    ELSE IncrementalFold(branch, size,
            IF Bit(size, i) = 1 THEN hash_concat(branch[i], node)
                                ELSE hash_concat(node, ZeroHash(i)),
            i + 1)

\* A root() whose fold takes level 0 for empty whatever bit 0 of count is.
IncrementalRootSkipsLevel0(inc) ==
    IncrementalFold(inc.branch, (inc.count \div 2) * 2, ZERO, 0)

IncrementalRoot(inc) == IncrementalFold(inc.branch, inc.count, ZERO, 0)

IncrementalCount(inc) == inc.count

-----------------------------------------------------------------------------
(* Full Prover Tree, specification section 4.2 *)

\* The Prover keeps every leaf; its state is the sequence of leaves.
ProverDefault == << >>

\* Digest of the node at height k, position j, of the depth-D tree whose
\* first Len(leaves) leaves are `leaves` and whose other leaves are empty.
RECURSIVE SubtreeHash(_, _, _)
SubtreeHash(leaves, k, j) ==
    IF k = 0
    THEN IF j < Len(leaves) THEN leaves[j + 1] ELSE ZERO
    ELSE hash_concat(SubtreeHash(leaves, k - 1, 2 * j),
                     SubtreeHash(leaves, k - 1, 2 * j + 1))

ProverRoot(p) == SubtreeHash(p, TREE_DEPTH, 0)

ProverCount(p) == Len(p)

ProverIngest(p, leaf) ==
    IF Len(p) >= Capacity
    THEN [ok |-> FALSE, prover |-> p]
    ELSE [ok |-> TRUE, prover |-> Append(p, leaf)]

Sibling(a) == IF a % 2 = 0 THEN a + 1 ELSE a - 1

\* The authentication path of leaf_index in the tree as it was when it
\* held exactly root_index + 1 leaves, with that tree's root.
ProveAgainstPrevious(p, leaf_index, root_index) ==
    IF leaf_index > root_index \/ root_index >= Len(p)
    THEN [ok |-> FALSE]
    ELSE LET hist == SubSeq(p, 1, root_index + 1) IN
         [ok    |-> TRUE,
          proof |-> [leaf  |-> p[leaf_index + 1],
                     index |-> leaf_index,
                     path  |-> [k \in 1 .. TREE_DEPTH |->
                                  SubtreeHash(hist, k - 1,
                                      Sibling(leaf_index \div (2 ^ (k - 1))))],
                     root  |-> SubtreeHash(hist, TREE_DEPTH, 0)]]

\* merkle root recomputed from a proof: fold the path bottom-up, the bits
\* of the leaf index giving the side of each sibling.
RECURSIVE FoldPath(_, _, _, _)
FoldPath(node, path, index, k) ==
    IF k > Len(path) THEN node
    ELSE FoldPath(IF Bit(index, k - 1) = 0
                      THEN hash_concat(node, path[k])
                      ELSE hash_concat(path[k], node),
                  path, index, k + 1)

ProofRoot(proof) == FoldPath(proof.leaf, proof.path, proof.index, 1)

-----------------------------------------------------------------------------
(* Domain registry, hyperlane-core/src/chain.rs *)

\* The variants of HyperlaneDomain in declaration order: the identifier,
\* its discriminant, the identifier in lower case (serialize_all =
\* "lowercase") and the variant's own #[strum(serialize = ...)], if any.
HyperlaneDomain ==
    << [variant |-> "Ethereum", id |-> 6648936, lower |-> "ethereum", serialize |-> ""],
       [variant |-> "Goerli", id |-> 5, lower |-> "goerli", serialize |-> ""],
       [variant |-> "Kovan", id |-> 3000, lower |-> "kovan", serialize |-> ""],
       [variant |-> "Polygon", id |-> 1886350457, lower |-> "polygon", serialize |-> ""],
       [variant |-> "Mumbai", id |-> 80001, lower |-> "mumbai", serialize |-> ""],
       [variant |-> "Avalanche", id |-> 1635148152, lower |-> "avalanche", serialize |-> ""],
       [variant |-> "Fuji", id |-> 43113, lower |-> "fuji", serialize |-> ""],
       [variant |-> "Arbitrum", id |-> 6386274, lower |-> "arbitrum", serialize |-> ""],
       [variant |-> "ArbitrumRinkeby", id |-> 1634872690, lower |-> "arbitrumrinkeby", serialize |-> ""],
       [variant |-> "ArbitrumGoerli", id |-> 421613, lower |-> "arbitrumgoerli", serialize |-> ""],
       [variant |-> "Optimism", id |-> 28528, lower |-> "optimism", serialize |-> ""],
       [variant |-> "OptimismKovan", id |-> 1869622635, lower |-> "optimismkovan", serialize |-> ""],
       [variant |-> "OptimismGoerli", id |-> 420, lower |-> "optimismgoerli", serialize |-> ""],
       [variant |-> "BinanceSmartChain", id |-> 6452067, lower |-> "binancesmartchain", serialize |-> "bsc"],
       [variant |-> "BinanceSmartChainTestnet", id |-> 1651715444, lower |-> "binancesmartchaintestnet", serialize |-> "bsctestnet"],
       [variant |-> "Celo", id |-> 1667591279, lower |-> "celo", serialize |-> ""],
       [variant |-> "Alfajores", id |-> 1000, lower |-> "alfajores", serialize |-> ""],
       [variant |-> "MoonbaseAlpha", id |-> 1836002657, lower |-> "moonbasealpha", serialize |-> ""],
       [variant |-> "Moonbeam", id |-> 1836002669, lower |-> "moonbeam", serialize |-> ""],
       [variant |-> "Zksync2Testnet", id |-> 280, lower |-> "zksync2testnet", serialize |-> ""],
       [variant |-> "Test1", id |-> 13371, lower |-> "test1", serialize |-> ""],
       [variant |-> "Test2", id |-> 13372, lower |-> "test2", serialize |-> ""],
       [variant |-> "Test3", id |-> 13373, lower |-> "test3", serialize |-> ""] >>

Variants == {HyperlaneDomain[n].variant : n \in DOMAIN HyperlaneDomain}

DomainOf(v) ==
    HyperlaneDomain[CHOOSE n \in DOMAIN HyperlaneDomain : HyperlaneDomain[n].variant = v]

Some(x) == [some |-> TRUE, value |-> x]

None == [some |-> FALSE]

\* The first variant, in declaration order, among the positions `hits`.
FirstVariant(hits) ==
    IF hits = {} THEN None
    ELSE Some(HyperlaneDomain[CHOOSE n \in hits : \A m \in hits : n <= m].variant)

\* The string strum gives a variant: its own serialize attribute, else the
\* identifier in lower case.
Serialization(d) == IF d.serialize # "" THEN d.serialize ELSE d.lower

\* impl From<HyperlaneDomain> for u32: `domain as u32`.
u32_from(v) == DomainOf(v).id

\* A Display that forgets the variant's own serialize attribute.
to_string_lowercase_only(v) == DomainOf(v).lower

\* strum::Display
to_string(v) == Serialization(DomainOf(v))

\* strum::EnumString: the variant whose serialization is exactly `s`.
from_str(s) ==
    FirstVariant({n \in DOMAIN HyperlaneDomain : Serialization(HyperlaneDomain[n]) = s})

\* TryFrom<u32>: FromPrimitive::from_u32, the variant with that discriminant.
try_from(domain_id) ==
    FirstVariant({n \in DOMAIN HyperlaneDomain : HyperlaneDomain[n].id = domain_id})

name_from_domain_id(domain_id) ==
    LET d == try_from(domain_id) IN
    IF d.some THEN Some(to_string(d.value)) ELSE None

domain_id_from_name(name) ==
    LET d == from_str(name) IN
    IF d.some THEN Some(u32_from(d.value)) ELSE None

-----------------------------------------------------------------------------
(* Merkle Tree Builder, relayer/src/merkle_tree/builder.rs *)

\* count(): `self.prover.count() as u32`.
count(p) == ProverCount(p) % U32Modulus

\* The span field prover_latest_index = self.count() - 1 of get_proof.  On
\* an empty Builder the u32 subtraction overflows: a build with overflow
\* checks panics when the field is evaluated, a build without them wraps.
FieldPanics(p) == IF count(p) = 0 THEN {TRUE, FALSE} ELSE {FALSE}

prover_latest_index(p) == (count(p) + U32Modulus - 1) % U32Modulus

\* get_proof that proves against the latest leaf instead of root_index.
get_proof_latest_root(p, leaf_index, root_index) ==
    LET r == ProveAgainstPrevious(p, leaf_index, ProverCount(p) - 1) IN
    IF r.ok THEN [status |-> "Ok", proof |-> r.proof]
    ELSE [status |-> "InvalidProofRequest"]

\* The body of get_proof: delegate to prove_against_previous and wrap its
\* error.
get_proof(p, leaf_index, root_index) ==
    LET r == ProveAgainstPrevious(p, leaf_index, root_index) IN
    IF r.ok THEN [status |-> "Ok", proof |-> r.proof]
    ELSE [status |-> "InvalidProofRequest"]

\* The MismatchedRoots error built with its two roots exchanged.
IngestResultSwapped(p, inc) ==
    IF ProverRoot(p) # IncrementalRoot(inc)
    THEN [status           |-> "MismatchedRoots",
          prover_root      |-> DebugFmt(IncrementalRoot(inc)),
          incremental_root |-> DebugFmt(ProverRoot(p))]
    ELSE [status |-> "Ok"]

\* The comparison that ends ingest_message_id, and the error it builds.
IngestResult(p, inc) ==
    IF ProverRoot(p) # IncrementalRoot(inc)
    THEN [status           |-> "MismatchedRoots",
          prover_root      |-> DebugFmt(ProverRoot(p)),
          incremental_root |-> DebugFmt(IncrementalRoot(inc))]
    ELSE [status |-> "Ok"]

\* ingest_message_id without the `?` on the Prover's error.
ingest_ignores_tree_full(p, inc, message_id) ==
    LET pi == ProverIngest(p, message_id)
        i2 == IncrementalIngest(inc, message_id) IN
    IF ~pi.ok
    THEN [prover |-> pi.prover, incremental |-> i2,
          result |-> [status |-> "TreeFull"]]
    ELSE [prover |-> pi.prover, incremental |-> i2,
          result |-> IngestResult(pi.prover, i2)]

\* ingest_message_id without the comparison of the two roots.
ingest_skips_root_check(p, inc, message_id) ==
    LET pi == ProverIngest(p, message_id) IN
    IF ~pi.ok
    THEN [prover |-> pi.prover, incremental |-> inc,
          result |-> [status |-> "TreeFull"]]
    ELSE [prover |-> pi.prover,
          incremental |-> IncrementalIngest(inc, message_id),
          result |-> [status |-> "Ok"]]

\* ingest_message_id: the Prover first, returning its error; then the
\* Incremental Accumulator; then the comparison of the two roots.
ingest_message_id(p, inc, message_id) ==
    LET pi == ProverIngest(p, message_id) IN
    IF ~pi.ok
    THEN [prover |-> pi.prover, incremental |-> inc,
          result |-> [status |-> "TreeFull"]]
    ELSE LET i2 == IncrementalIngest(inc, message_id) IN
         [prover |-> pi.prover, incremental |-> i2,
          result |-> IngestResult(pi.prover, i2)]

-----------------------------------------------------------------------------
(* State *)

VARIABLES
    prover,       \* MerkleTreeBuilder.prover
    incremental,  \* MerkleTreeBuilder.incremental
    res,          \* the last call on the Builder and what it returned
    okCount,      \* history: the number of ingests that returned Ok
    mismatched,   \* history: an ingest has returned MismatchedRoots
    snap,         \* history: snap[n] is the Prover when its count became n
    fed,          \* history: the leaves given to incremental.ingest
    corrupted,    \* a tree's state has been overwritten from outside
    reg           \* the last registry lookups and what they returned

vars == <<prover, incremental, res, okCount, mismatched, snap, fed, corrupted, reg>>

builderVars == <<prover, incremental, res, okCount, mismatched, snap, fed, corrupted>>

RegInit ==
    [variant |-> "", from_id |-> None, from_name |-> None,
     domain_id |-> 0, name_of_id |-> None, id_of_name_of_id |-> None,
     name |-> "", id_of_name |-> None, name_of_id_of_name |-> None]

\* MerkleTreeBuilder::new()
Init ==
    /\ prover = ProverDefault
    /\ incremental = IncrementalDefault
    /\ res = [op |-> "new"]
    /\ okCount = 0
    /\ mismatched = FALSE
    /\ snap = << >>
    /\ fed = << >>
    /\ corrupted = FALSE
    /\ reg = RegInit

Ingest(message_id) ==
    LET out == ingest_message_id(prover, incremental, message_id) IN
    /\ prover' = out.prover
    /\ incremental' = out.incremental
    /\ res' = [op |-> "ingest_message_id", message_id |-> message_id,
               result |-> out.result]
    /\ okCount' = IF out.result.status = "Ok" THEN okCount + 1 ELSE okCount
    /\ mismatched' = (mismatched \/ out.result.status = "MismatchedRoots")
    /\ snap' = IF ProverCount(out.prover) # ProverCount(prover)
               THEN Append(snap, out.prover) ELSE snap
    /\ fed' = IF IncrementalCount(out.incremental) # IncrementalCount(incremental)
              THEN Append(fed, message_id) ELSE fed
    /\ UNCHANGED <<corrupted, reg>>

GetProof(leaf_index, root_index) ==
    /\ \E panics \in FieldPanics(prover) :
          res' = [op |-> "get_proof",
                  leaf_index |-> leaf_index, root_index |-> root_index,
                  prover_latest_index |-> prover_latest_index(prover),
                  result |-> IF panics THEN [status |-> "Panic"]
                             ELSE get_proof(prover, leaf_index, root_index)]
    /\ UNCHANGED <<prover, incremental, okCount, mismatched, snap, fed, corrupted, reg>>

\* The forced divergence of the specification's scenario: after an
\* ingestion, one leaf of the Prover is overwritten ...
CorruptProver ==
    /\ ~corrupted
    /\ \E n \in 1 .. Len(prover) : \E d \in (Leaves \cup {ZERO}) \ {prover[n]} :
          prover' = [prover EXCEPT ![n] = d]
    /\ corrupted' = TRUE
    /\ UNCHANGED <<incremental, res, okCount, mismatched, snap, fed, reg>>

\* ... or one branch digest of the Incremental Accumulator is.
CorruptIncremental ==
    /\ ~corrupted
    /\ incremental.count > 0
    /\ \E i \in Levels : \E d \in (Leaves \cup {ZERO}) \ {incremental.branch[i]} :
          incremental' = [incremental EXCEPT !.branch[i] = d]
    /\ corrupted' = TRUE
    /\ UNCHANGED <<prover, res, okCount, mismatched, snap, fed, reg>>

Indices == 0 .. Capacity

IngestAny == \E m \in Leaves : Ingest(m)

GetProofAny == \E li \in Indices, ri \in Indices : GetProof(li, ri)

Next == IngestAny \/ GetProofAny

Spec == Init /\ [][Next]_vars

NextFault == IngestAny \/ CorruptProver \/ CorruptIncremental

SpecFault == Init /\ [][NextFault]_vars

-----------------------------------------------------------------------------
(* Registry lookups.  reg holds either the last conversion of a variant, *)
(* or the last lookup by id together with the last lookup by name.       *)

IdInputs == {HyperlaneDomain[n].id : n \in DOMAIN HyperlaneDomain} \cup {0, 1, 3840}

NameInputs ==
    {HyperlaneDomain[n].lower : n \in DOMAIN HyperlaneDomain}
        \cup {"bsc", "bsctestnet", "foo", "Ethereum", "ETHEREUM"}

ConvertDomain(v) ==
    /\ reg' = [RegInit EXCEPT !.variant = v,
                              !.from_id = try_from(u32_from(v)),
                              !.from_name = from_str(to_string(v))]
    /\ UNCHANGED builderVars

LookupId(domain_id) ==
    /\ LET n == name_from_domain_id(domain_id) IN
       reg' = [reg EXCEPT !.variant = "", !.from_id = None, !.from_name = None,
                          !.domain_id = domain_id,
                          !.name_of_id = n,
                          !.id_of_name_of_id =
                              IF n.some THEN domain_id_from_name(n.value) ELSE None]
    /\ UNCHANGED builderVars

LookupName(name) ==
    /\ LET i == domain_id_from_name(name) IN
       reg' = [reg EXCEPT !.variant = "", !.from_id = None, !.from_name = None,
                          !.name = name,
                          !.id_of_name = i,
                          !.name_of_id_of_name =
                              IF i.some THEN name_from_domain_id(i.value) ELSE None]
    /\ UNCHANGED builderVars

NextRegistry ==
    \/ \E v \in Variants : ConvertDomain(v)
    \/ \E i \in IdInputs : LookupId(i)
    \/ \E s \in NameInputs : LookupName(s)

SpecRegistry == Init /\ [][NextRegistry]_vars

-----------------------------------------------------------------------------
(* Properties *)

IsIngest == res.op = "ingest_message_id"

IsGetProof == res.op = "get_proof"

RootsAgree == ProverRoot(prover) = IncrementalRoot(incremental)

\* C1: after every ingest_message_id that returns Ok, on a Builder grown
\* from new() by ingests in order, prover.root() == incremental.root() and
\* prover.count() == incremental.count() == the number of leaves ingested
\* so far.
C1_ConsistentAfterOk ==
    (IsIngest /\ res.result.status = "Ok") =>
        /\ ProverRoot(prover) = IncrementalRoot(incremental)
        /\ ProverCount(prover) = IncrementalCount(incremental)
        /\ ProverCount(prover) = okCount
        /\ ProverCount(prover) = Len(fed)

C1_Witness ==
    /\ IsIngest /\ res.result.status = "Ok"
    /\ okCount = 3
    /\ prover[1] # prover[2]

\* C2: for leaf_index <= root_index < n, get_proof(leaf_index, root_index)
\* succeeds; folding its path with the leaf, sides given by the bits of
\* leaf_index, yields the root the tree had when its count was
\* root_index + 1, which is also the root the proof carries; and every
\* sibling whose subtree lies right of leaf root_index is the empty-subtree
\* digest of its level.
C2_ProofValid ==
    (IsGetProof /\ res.leaf_index <= res.root_index
                /\ res.root_index < ProverCount(prover)) =>
        /\ res.result.status = "Ok"
        /\ res.result.proof.leaf = prover[res.leaf_index + 1]
        /\ res.result.proof.index = res.leaf_index
        /\ ProofRoot(res.result.proof) = ProverRoot(snap[res.root_index + 1])
        /\ res.result.proof.root = ProverRoot(snap[res.root_index + 1])
        /\ \A k \in 1 .. TREE_DEPTH :
              Sibling(res.leaf_index \div (2 ^ (k - 1))) * (2 ^ (k - 1)) > res.root_index
                  => res.result.proof.path[k] = ZeroHash(k - 1)

\* A proof against a root the tree has outgrown, with a sibling that is
\* empty in the proof and no longer empty in the tree.
C2_Witness ==
    /\ IsGetProof /\ res.result.status = "Ok"
    /\ res.leaf_index < res.root_index
    /\ res.root_index + 1 < ProverCount(prover)
    /\ \E k \in 1 .. TREE_DEPTH :
          /\ res.result.proof.path[k] = ZeroHash(k - 1)
          /\ SubtreeHash(prover, k - 1, Sibling(res.leaf_index \div (2 ^ (k - 1))))
                 # ZeroHash(k - 1)

\* C3: in every Builder state, the empty Builder included, get_proof with
\* leaf_index > root_index or root_index >= count() returns the
\* InvalidProofRequest error and no proof.
C3_InvalidRequestRejected ==
    (IsGetProof /\ (res.leaf_index > res.root_index
                       \/ res.root_index >= count(prover))) =>
        res.result = [status |-> "InvalidProofRequest"]

\* C4: an ingest on a Builder whose tree holds 2^D leaves returns TreeFull
\* and leaves both trees as they were: same roots, same counts, the
\* Incremental Accumulator not ingested.
C4_TreeFullLeavesStateUnchanged ==
    [][(ProverCount(prover) = Capacity /\ IngestAny) =>
          /\ res'.result.status = "TreeFull"
          /\ prover' = prover
          /\ incremental' = incremental
          /\ ProverRoot(prover') = ProverRoot(prover)
          /\ IncrementalRoot(incremental') = IncrementalRoot(incremental)
          /\ count(prover') = count(prover)
          /\ IncrementalCount(incremental') = IncrementalCount(incremental)]_vars

C4_Witness ==
    /\ IsIngest /\ res.result.status = "TreeFull"
    /\ ProverCount(prover) = Capacity
    /\ IncrementalCount(incremental) = Capacity

\* C5 as stated: once a tree has been corrupted so that the two roots
\* differ, the next ingest returns MismatchedRoots carrying both roots.
C5_NextIngestReportsMismatch ==
    [][(corrupted /\ ~RootsAgree /\ IngestAny) =>
          /\ res'.result.status = "MismatchedRoots"
          /\ res'.result.prover_root = DebugFmt(ProverRoot(prover'))
          /\ res'.result.incremental_root = DebugFmt(IncrementalRoot(incremental'))]_vars

\* C5 as amended: once a tree has been corrupted so that the two roots
\* differ, the next ingest returns TreeFull if the Prover already holds 2^D
\* leaves, and otherwise MismatchedRoots carrying both roots as they are
\* after the ingest; and no ingest returns Ok leaving the two roots
\* different.
C5_MismatchOrTreeFull ==
    [][IngestAny =>
          /\ (corrupted /\ ~RootsAgree) =>
                IF ProverCount(prover) >= Capacity
                THEN res'.result.status = "TreeFull"
                ELSE /\ res'.result.status = "MismatchedRoots"
                     /\ res'.result.prover_root = DebugFmt(ProverRoot(prover'))
                     /\ res'.result.incremental_root
                            = DebugFmt(IncrementalRoot(incremental'))
                     /\ res'.result.prover_root # res'.result.incremental_root
          /\ res'.result.status = "Ok" =>
                ProverRoot(prover') = IncrementalRoot(incremental')]_vars

C5_Witness ==
    /\ corrupted
    /\ IsIngest /\ res.result.status = "MismatchedRoots"
    /\ okCount >= 1
    /\ ProverCount(prover) = okCount + 1
    /\ ProverCount(prover) < Capacity

\* C6: once an ingest has returned MismatchedRoots, no later ingest on the
\* same Builder returns Ok.
C6_MismatchIsFinal ==
    mismatched => ~(IsIngest /\ res.result.status = "Ok")

\* A second ingest after the one that reported the mismatch, on a tree that
\* is not yet full.
C6_Witness ==
    /\ mismatched
    /\ IsIngest /\ res.result.status = "MismatchedRoots"
    /\ ProverCount(prover) >= okCount + 2
    /\ ProverCount(prover) < Capacity

C10_ProofStableUnderGrowth ==
    (IsGetProof /\ res.result.status = "Ok") =>
        /\ res.root_index < Len(snap)
        /\ res.result = get_proof(snap[res.root_index + 1],
                                  res.leaf_index, res.root_index)

\* The tree has grown by two leaves since root_index, and a proof of the
\* same leaf against the latest root would be another one.
C10_Witness ==
    /\ IsGetProof /\ res.result.status = "Ok"
    /\ ProverCount(prover) >= res.root_index + 3
    /\ res.result # get_proof(prover, res.leaf_index, ProverCount(prover) - 1)

DomainIds == {HyperlaneDomain[n].id : n \in DOMAIN HyperlaneDomain}

DomainNames == {Serialization(HyperlaneDomain[n]) : n \in DOMAIN HyperlaneDomain}

\* C8: every variant d converts back from its id and from its name:
\* try_from(u32::from(d)) == d and from_str(d.to_string()) == d;
\* name_from_domain_id(id) is Some exactly when id is a variant's id,
\* domain_id_from_name(name) is Some exactly when name is a variant's
\* (lower-case) name, and each lookup undoes the other.
C8_RegistryBijection ==
    /\ reg.variant # "" =>
          /\ reg.from_id = Some(reg.variant)
          /\ reg.from_name = Some(reg.variant)
    /\ reg.name_of_id.some <=> reg.domain_id \in DomainIds
    /\ reg.name_of_id.some =>
          /\ reg.name_of_id.value \in DomainNames
          /\ reg.id_of_name_of_id = Some(reg.domain_id)
    /\ reg.id_of_name.some <=> reg.name \in DomainNames
    /\ reg.id_of_name.some =>
          /\ reg.id_of_name.value \in DomainIds
          /\ reg.name_of_id_of_name = Some(reg.name)

C8_Witness ==
    /\ reg.variant = "BinanceSmartChain"
    /\ reg.from_name = Some("BinanceSmartChain")
    /\ reg.from_id = Some("BinanceSmartChain")

====
